---------------------------- MODULE Spec2Model ----------------------------
(***************************************************************************)
(* Model of the flexbox-style layout engine of src/yoga_demo.py:           *)
(* YogaNode trees, calculate_layout (_layout_row / _layout_column) and     *)
(* render (_render_node) onto a character grid.                            *)
(*                                                                         *)
(* A tree is the sequence `nodes`; node 1 is the root and `children` holds *)
(* the indices of a node's children in insertion order.  Optional[int]     *)
(* fields are sequences of length 0 (None) or 1.  A Python str is a        *)
(* sequence of one-character strings; the six box-drawing code points are  *)
(* the atoms BOX_H .. BOX_BR.                                              *)
(***************************************************************************)
EXTENDS Integers, Sequences, FiniteSets, TLC

VARIABLES
    nodes,   \* the tree: node 1 is the root
    out,     \* what the last call returned: render's string, or that it raised
    writes,  \* the assignments to the grid the last call attempted, in order
    last,    \* the last call made on the root
    run      \* the call stack, visit log and grid of a call run step by step

vars == <<nodes, out, writes, last, run>>

(* ------------------------------ bounds --------------------------------- *)

MaxNodes == 3

(* ----------------------- enumerations and values ------------------------ *)

ROW == "row"

COLUMN == "column"

None == <<>>

Some(v) == <<v>>

BOX_H == "BOX_H"

BOX_V == "BOX_V"

BOX_TL == "BOX_TL"

BOX_TR == "BOX_TR"

BOX_BL == "BOX_BL"

BOX_BR == "BOX_BR"

BorderGlyphs == {BOX_H, BOX_V, BOX_TL, BOX_TR, BOX_BL, BOX_BR}

NL == "\n"

(* Python truthiness of an Optional[int]: None and 0 are falsy. *)
Truthy(opt) == opt # None /\ opt[1] # 0

(* Python `a or b` for an Optional[int] a and an int b. *)
OrElse(opt, b) == IF Truthy(opt) THEN opt[1] ELSE b

Max(a, b) == IF a >= b THEN a ELSE b

Min(a, b) == IF a <= b THEN a ELSE b

(* Python a // b for b > 0: floor division. *)
FloorDiv(a, b) == a \div b

(* Python int(a / b) for b > 0: true division, then truncation toward zero. *)
IntTrueDiv(a, b) == IF a >= 0 THEN a \div b ELSE -((-a) \div b)

RECURSIVE SumFlexGrow(_, _, _)
SumFlexGrow(ns, cs, i) ==
    IF i > Len(cs) THEN 0 ELSE ns[cs[i]].flex_grow + SumFlexGrow(ns, cs, i + 1)

(* The dataclass YogaNode with the defaults of its field declarations. *)
YogaNode ==
    [content |-> <<>>, flex_direction |-> COLUMN,
     justify_content |-> "flex-start", align_items |-> "flex-start",
     width |-> None, height |-> None,
     flex_grow |-> 0, flex_shrink |-> 1, flex_basis |-> None,
     margin |-> 0, padding |-> 1, border |-> TRUE,
     children |-> <<>>,
     computed_x |-> 0, computed_y |-> 0,
     computed_width |-> 0, computed_height |-> 0]

(* ------------------------------- layout -------------------------------- *)

RECURSIVE calculate_layout(_, _, _, _)
RECURSIVE layout_row_loop(_, _, _, _, _, _)
RECURSIVE layout_column_loop(_, _, _, _, _, _)

(* Line 97: the width _layout_row distributes among the children of n.    *)
remaining_width(ns, n, available_width) ==
    available_width - (Len(ns[n].children) * 2)

(* Line 124: the height _layout_column distributes among the children.    *)
remaining_height(ns, n, available_height) ==
    available_height - (Len(ns[n].children) * 2)

(* Mutant of RowChildWidth: the space to distribute is taken to be the     *)
(* width less the parent's padding on both sides.                          *)
RowChildWidthLessPadding(ns, n, c, available_width) ==
    LET cs == ns[n].children
        total_flex_grow == SumFlexGrow(ns, cs, 1)
        remaining == available_width - (2 * ns[n].padding)
    IN  IF Truthy(ns[c].width) THEN ns[c].width[1]
        ELSE IF total_flex_grow > 0 /\ ns[c].flex_grow > 0
             THEN IntTrueDiv(remaining * ns[c].flex_grow, total_flex_grow)
             ELSE FloorDiv(remaining, Len(cs))

(* Lines 103-108: the width of child c of node n laid out in a row. *)
RowChildWidth(ns, n, c, available_width) ==
    LET cs == ns[n].children
        total_flex_grow == SumFlexGrow(ns, cs, 1)
    IN  IF Truthy(ns[c].width) THEN ns[c].width[1]
        ELSE IF total_flex_grow > 0 /\ ns[c].flex_grow > 0
             THEN IntTrueDiv(remaining_width(ns, n, available_width) * ns[c].flex_grow,
                             total_flex_grow)
             ELSE FloorDiv(remaining_width(ns, n, available_width), Len(cs))

(* Mutant of ColumnChildHeight: the fixed size looked at is the child's    *)
(* width, not its height.                                                  *)
ColumnChildHeightByWidth(ns, n, c, available_height) ==
    LET cs == ns[n].children
        total_flex_grow == SumFlexGrow(ns, cs, 1)
    IN  IF Truthy(ns[c].width) THEN ns[c].width[1]
        ELSE IF total_flex_grow > 0 /\ ns[c].flex_grow > 0
             THEN IntTrueDiv(remaining_height(ns, n, available_height) * ns[c].flex_grow,
                             total_flex_grow)
             ELSE FloorDiv(remaining_height(ns, n, available_height), Len(cs))

(* Lines 130-135: the height of child c of node n laid out in a column. *)
ColumnChildHeight(ns, n, c, available_height) ==
    LET cs == ns[n].children
        total_flex_grow == SumFlexGrow(ns, cs, 1)
    IN  IF Truthy(ns[c].height) THEN ns[c].height[1]
        ELSE IF total_flex_grow > 0 /\ ns[c].flex_grow > 0
             THEN IntTrueDiv(remaining_height(ns, n, available_height) * ns[c].flex_grow,
                             total_flex_grow)
             ELSE FloorDiv(remaining_height(ns, n, available_height), Len(cs))

(* The body of the for loop of _layout_row, from the i-th child on. *)
layout_row_loop(ns, n, available_width, available_height, i, current_x) ==
    IF i > Len(ns[n].children) THEN ns
    ELSE LET c == ns[n].children[i]
             child_width == RowChildWidth(ns, n, c, available_width)
             child_height == available_height - (2 * ns[n].padding)
             ns1 == [ns EXCEPT ![c].computed_x = current_x,
                               ![c].computed_y = ns[n].padding,
                               ![c].computed_width = child_width,
                               ![c].computed_height = child_height]
             ns2 == calculate_layout(ns1, c, child_width, child_height)
         IN  layout_row_loop(ns2, n, available_width, available_height, i + 1,
                             current_x + child_width + ns[n].padding)

layout_row(ns, n, available_width, available_height) ==
    layout_row_loop(ns, n, available_width, available_height, 1, ns[n].padding)

(* The body of the for loop of _layout_column, from the i-th child on. *)
layout_column_loop(ns, n, available_width, available_height, i, current_y) ==
    IF i > Len(ns[n].children) THEN ns
    ELSE LET c == ns[n].children[i]
             child_height == ColumnChildHeight(ns, n, c, available_height)
             child_width == available_width - (2 * ns[n].padding)
             ns1 == [ns EXCEPT ![c].computed_x = ns[n].padding,
                               ![c].computed_y = current_y,
                               ![c].computed_width = child_width,
                               ![c].computed_height = child_height]
             ns2 == calculate_layout(ns1, c, child_width, child_height)
         IN  layout_column_loop(ns2, n, available_width, available_height, i + 1,
                                current_y + child_height + ns[n].padding)

layout_column(ns, n, available_width, available_height) ==
    layout_column_loop(ns, n, available_width, available_height, 1, ns[n].padding)

(* Mutant of calculate_layout: the resolved size is stored in the style    *)
(* fields width and height as well.                                        *)
calculate_layout_sets_style(ns, n, available_width, available_height) ==
    LET ns1 == [ns EXCEPT
                  ![n].computed_width = OrElse(ns[n].width, available_width),
                  ![n].computed_height = OrElse(ns[n].height, available_height),
                  ![n].width = Some(OrElse(ns[n].width, available_width)),
                  ![n].height = Some(OrElse(ns[n].height, available_height))]
    IN  IF ns[n].children = <<>> THEN ns1
        ELSE IF ns[n].flex_direction = ROW
             THEN layout_row(ns1, n, available_width, available_height)
             ELSE layout_column(ns1, n, available_width, available_height)

(* Mutant of calculate_layout: the node's margin is taken off its own      *)
(* computed size on both sides.                                            *)
calculate_layout_less_margin(ns, n, available_width, available_height) ==
    LET ns1 == [ns EXCEPT
                  ![n].computed_width =
                      OrElse(ns[n].width, available_width) - (2 * ns[n].margin),
                  ![n].computed_height =
                      OrElse(ns[n].height, available_height) - (2 * ns[n].margin)]
    IN  IF ns[n].children = <<>> THEN ns1
        ELSE IF ns[n].flex_direction = ROW
             THEN layout_row(ns1, n, available_width, available_height)
             ELSE layout_column(ns1, n, available_width, available_height)

calculate_layout(ns, n, available_width, available_height) ==
    LET ns1 == [ns EXCEPT
                  ![n].computed_width = OrElse(ns[n].width, available_width),
                  ![n].computed_height = OrElse(ns[n].height, available_height)]
    IN  IF ns[n].children = <<>> THEN ns1
        ELSE IF ns[n].flex_direction = ROW
             THEN layout_row(ns1, n, available_width, available_height)
             ELSE layout_column(ns1, n, available_width, available_height)


(* ------------------------------ painting ------------------------------- *)

(* str.split('\n'): the pieces between the newlines, empty pieces kept. *)
RECURSIVE split(_, _, _)
split(s, i, cur) ==
    IF i > Len(s) THEN <<cur>>
    ELSE IF s[i] = NL THEN <<cur>> \o split(s, i + 1, <<>>)
         ELSE split(s, i + 1, Append(cur, s[i]))

RECURSIVE Concat(_, _)
Concat(ss, i) == IF i > Len(ss) THEN <<>> ELSE ss[i] \o Concat(ss, i + 1)

(* A requested assignment grid[row][col] = ch; `ok` is the guard of the    *)
(* if statement around it.                                                 *)
Cell(row, col, ch, kind, ok) ==
    [row |-> row, col |-> col, ch |-> ch, kind |-> kind, ok |-> ok]

IsOk(c) == c.ok

(* Mutant of ClipX: the position is capped above but not floored at 0.     *)
ClipXNoFloor(x, terminal_width) == Min(x, terminal_width - 1)

(* Lines 168-171: the rectangle of a node after "Ensure bounds". *)
ClipX(x, terminal_width) == Max(0, Min(x, terminal_width - 1))

ClipW(w, x, terminal_width) == Min(w, terminal_width - x)

(* Mutant of BorderCells: the bottom edge is drawn one row too low.        *)
BorderCellsBottomOff(x, y, w, h, terminal_width, terminal_height) ==
    LET horiz == [k \in 1..(2 * w) |->
                    LET i == (k - 1) \div 2
                    IN  IF k % 2 = 1
                        THEN Cell(y, x + i, BOX_H, "border",
                                  y < terminal_height /\ x + i < terminal_width)
                        ELSE Cell(y + h, x + i, BOX_H, "border",
                                  y + h - 1 < terminal_height /\ x + i < terminal_width)]
        vert == [k \in 1..(2 * h) |->
                    LET i == (k - 1) \div 2
                    IN  IF k % 2 = 1
                        THEN Cell(y + i, x, BOX_V, "border",
                                  y + i < terminal_height /\ x < terminal_width)
                        ELSE Cell(y + i, x + w - 1, BOX_V, "border",
                                  y + i < terminal_height /\ x + w - 1 < terminal_width)]
    IN  SelectSeq(horiz \o vert, IsOk)

(* Mutant of BorderCells: the edges are drawn, the corners are not.        *)
BorderCellsNoCorners(x, y, w, h, terminal_width, terminal_height) ==
    LET horiz == [k \in 1..(2 * w) |->
                    LET i == (k - 1) \div 2
                    IN  IF k % 2 = 1
                        THEN Cell(y, x + i, BOX_H, "border",
                                  y < terminal_height /\ x + i < terminal_width)
                        ELSE Cell(y + h - 1, x + i, BOX_H, "border",
                                  y + h - 1 < terminal_height /\ x + i < terminal_width)]
        vert == [k \in 1..(2 * h) |->
                    LET i == (k - 1) \div 2
                    IN  IF k % 2 = 1
                        THEN Cell(y + i, x, BOX_V, "border",
                                  y + i < terminal_height /\ x < terminal_width)
                        ELSE Cell(y + i, x + w - 1, BOX_V, "border",
                                  y + i < terminal_height /\ x + w - 1 < terminal_width)]
    IN  SelectSeq(horiz \o vert, IsOk)

(* Lines 174-197: the assignments of the border block, in program order,   *)
(* for the clipped rectangle (x, y, w, h).                                 *)
BorderCells(x, y, w, h, terminal_width, terminal_height) ==
    LET horiz == [k \in 1..(2 * w) |->
                    LET i == (k - 1) \div 2
                    IN  IF k % 2 = 1
                        THEN Cell(y, x + i, BOX_H, "border",
                                  y < terminal_height /\ x + i < terminal_width)
                        ELSE Cell(y + h - 1, x + i, BOX_H, "border",
                                  y + h - 1 < terminal_height /\ x + i < terminal_width)]
        vert == [k \in 1..(2 * h) |->
                    LET i == (k - 1) \div 2
                    IN  IF k % 2 = 1
                        THEN Cell(y + i, x, BOX_V, "border",
                                  y + i < terminal_height /\ x < terminal_width)
                        ELSE Cell(y + i, x + w - 1, BOX_V, "border",
                                  y + i < terminal_height /\ x + w - 1 < terminal_width)]
        corners == <<Cell(y, x, BOX_TL, "border",
                          y < terminal_height /\ x < terminal_width),
                     Cell(y, x + w - 1, BOX_TR, "border",
                          y < terminal_height /\ x + w - 1 < terminal_width),
                     Cell(y + h - 1, x, BOX_BL, "border",
                          y + h - 1 < terminal_height /\ x < terminal_width),
                     Cell(y + h - 1, x + w - 1, BOX_BR, "border",
                          y + h - 1 < terminal_height /\ x + w - 1 < terminal_width)>>
    IN  SelectSeq(horiz \o vert \o corners, IsOk)

(* Mutant of ContentCells: a line is cut at w - 1 characters, one more     *)
(* than the interior is wide.                                              *)
ContentCellsWide(content, x, y, w, h, terminal_width, terminal_height) ==
    LET pieces == split(content, 1, <<>>)
        lines == SubSeq(pieces, 1, Min(Len(pieces), h - 2))
        row(line_idx) ==
            IF y + 1 + line_idx < terminal_height
            THEN LET line == SubSeq(lines[line_idx + 1], 1,
                                    Min(Len(lines[line_idx + 1]), w - 1))
                 IN  SelectSeq([k \in 1..Len(line) |->
                                   Cell(y + 1 + line_idx, x + 1 + (k - 1), line[k],
                                        "content", x + 1 + (k - 1) < terminal_width)],
                               IsOk)
            ELSE <<>>
    IN  Concat([l \in 1..Len(lines) |-> row(l - 1)], 1)

(* Lines 200-206: the assignments of the content block, in program order. *)
ContentCells(content, x, y, w, h, terminal_width, terminal_height) ==
    LET pieces == split(content, 1, <<>>)
        lines == SubSeq(pieces, 1, Min(Len(pieces), h - 2))
        row(line_idx) ==
            IF y + 1 + line_idx < terminal_height
            THEN LET line == SubSeq(lines[line_idx + 1], 1,
                                    Min(Len(lines[line_idx + 1]), w - 2))
                 IN  SelectSeq([k \in 1..Len(line) |->
                                   Cell(y + 1 + line_idx, x + 1 + (k - 1), line[k],
                                        "content", x + 1 + (k - 1) < terminal_width)],
                               IsOk)
            ELSE <<>>
    IN  Concat([l \in 1..Len(lines) |-> row(l - 1)], 1)

(* Python list indexing: an index i of a list of length n is valid iff     *)
(* -n <= i < n, and a negative index counts from the end.                  *)
ValidIndex(i, n) == -n <= i /\ i < n

PyIndex(i, n) == IF i < 0 THEN i + n + 1 ELSE i + 1

(* The assignments grid[row][col] = ch of `cells`, from the i-th on; every *)
(* index is valid here.                                                    *)
RECURSIVE AssignCells(_, _, _)
AssignCells(grid, cells, i) ==
    IF i > Len(cells) THEN grid
    ELSE LET r == PyIndex(cells[i].row, Len(grid))
         IN  AssignCells([grid EXCEPT ![r][PyIndex(cells[i].col, Len(grid[r]))]
                                          = cells[i].ch],
                         cells, i + 1)

(* Whether the assignment of cell c raises IndexError on `grid`. *)
RaisesIndexError(grid, c) ==
    \/ ~ValidIndex(c.row, Len(grid))
    \/ ~ValidIndex(c.col, Len(grid[PyIndex(c.row, Len(grid))]))

(* The painter's state: the tree, the grid, the log of the assignments     *)
(* attempted on the grid and whether one of them raised IndexError.  Node  *)
(* n makes the assignments `cells` in order, up to the first that raises.  *)
SetCells(st, n, cells) ==
    LET bad == {i \in 1..Len(cells) : RaisesIndexError(st.grid, cells[i])}
        stop == IF bad = {} THEN Len(cells) + 1
                ELSE CHOOSE i \in bad : \A j \in bad : i <= j
        entry(c) == [node |-> n, kind |-> c.kind, row |-> c.row, col |-> c.col,
                     ch |-> c.ch]
    IN  [st EXCEPT !.grid = AssignCells(@, SubSeq(cells, 1, stop - 1), 1),
                   !.log = @ \o [i \in 1..Min(stop, Len(cells)) |-> entry(cells[i])],
                   !.raised = (bad # {})]

(* Mutant of DrawsBorder: the size test admits a width or height of 2.     *)
DrawsBorderFromTwo(self, w, h) == self.border /\ w >= 2 /\ h >= 2

(* Line 174: the condition of the border block. *)
DrawsBorder(self, w, h) == self.border /\ w > 2 /\ h > 2

(* Line 200: the condition of the content block. *)
DrawsContent(self, w, h) == self.content # <<>> /\ w > 2 /\ h > 2

RECURSIVE render_node(_, _, _, _)
RECURSIVE render_children(_, _, _, _, _, _, _)

(* Mutant of render_children: the parent's offset is not added to the     *)
(* children before they are painted.                                       *)
render_children_no_offset(st, n, i, x, y, terminal_width, terminal_height) ==
    IF i > Len(st.nodes[n].children) \/ st.raised THEN st
    ELSE LET c == st.nodes[n].children[i]
         IN  render_children(render_node(st, c, terminal_width, terminal_height),
                             n, i + 1, x, y, terminal_width, terminal_height)

(* Lines 209-212: the loop over the children, from the i-th child on. *)
render_children(st, n, i, x, y, terminal_width, terminal_height) ==
    IF i > Len(st.nodes[n].children) \/ st.raised THEN st
    ELSE LET c == st.nodes[n].children[i]
             st1 == [st EXCEPT !.nodes[c].computed_x = @ + x,
                               !.nodes[c].computed_y = @ + y]
         IN  render_children(render_node(st1, c, terminal_width, terminal_height),
                             n, i + 1, x, y, terminal_width, terminal_height)

(* Mutant of render_node: the children are painted first, the node's own  *)
(* border and content after them.                                          *)
render_node_children_first(st, n, terminal_width, terminal_height) ==
    LET self == st.nodes[n]
        x == ClipX(self.computed_x, terminal_width)
        y == ClipX(self.computed_y, terminal_height)
        w == ClipW(self.computed_width, x, terminal_width)
        h == ClipW(self.computed_height, y, terminal_height)
        border == IF DrawsBorder(self, w, h)
                  THEN BorderCells(x, y, w, h, terminal_width, terminal_height)
                  ELSE <<>>
        content == IF DrawsContent(self, w, h)
                   THEN ContentCells(self.content, x, y, w, h,
                                     terminal_width, terminal_height)
                   ELSE <<>>
        st1 == render_children(st, n, 1, x, y, terminal_width, terminal_height)
    IN  IF st1.raised THEN st1 ELSE SetCells(st1, n, border \o content)

(* _render_node of node n. *)
render_node(st, n, terminal_width, terminal_height) ==
    LET self == st.nodes[n]
        x == ClipX(self.computed_x, terminal_width)
        y == ClipX(self.computed_y, terminal_height)
        w == ClipW(self.computed_width, x, terminal_width)
        h == ClipW(self.computed_height, y, terminal_height)
        border == IF DrawsBorder(self, w, h)
                  THEN BorderCells(x, y, w, h, terminal_width, terminal_height)
                  ELSE <<>>
        content == IF DrawsContent(self, w, h)
                   THEN ContentCells(self.content, x, y, w, h,
                                     terminal_width, terminal_height)
                   ELSE <<>>
        st1 == SetCells(st, n, border \o content)
    IN  render_children(st1, n, 1, x, y, terminal_width, terminal_height)

(* Mutant of join: every row is followed by a newline, the last included.  *)
RECURSIVE joinTrailing(_, _)
joinTrailing(grid, i) ==
    IF i > Len(grid) THEN <<>>
    ELSE grid[i] \o <<NL>> \o joinTrailing(grid, i + 1)

(* '\n'.join(''.join(row) for row in grid) *)
RECURSIVE join(_, _)
join(grid, i) ==
    IF i > Len(grid) THEN <<>>
    ELSE IF i = Len(grid) THEN grid[i]
         ELSE grid[i] \o <<NL>> \o join(grid, i + 1)

BlankGrid(terminal_width, terminal_height) ==
    [r \in 1..terminal_height |-> [c \in 1..terminal_width |-> " "]]

(* Mutant of render: the tree is painted as it is, with no layout pass.    *)
renderNoLayout(ns, terminal_width, terminal_height) ==
    render_node([nodes |-> ns,
                 grid |-> BlankGrid(terminal_width, terminal_height),
                 log |-> <<>>, raised |-> FALSE],
                1, terminal_width, terminal_height)

(* YogaNode.render on the root: the painter's final state. *)
render(ns, terminal_width, terminal_height) ==
    render_node([nodes |-> calculate_layout(ns, 1, terminal_width, terminal_height),
                 grid |-> BlankGrid(terminal_width, terminal_height),
                 log |-> <<>>, raised |-> FALSE],
                1, terminal_width, terminal_height)

(* ---------------------------- state machine ---------------------------- *)

(* The terminal sizes handed to calculate_layout and render. *)
TermSizes == {<<0, 0>>, <<10, 5>>, <<12, 3>>}

Text == <<"H", "i", "!", "!", NL, "a", "b", NL, "c">>

(* The styles a node is constructed with. *)
Styles ==
    { YogaNode,
      [YogaNode EXCEPT !.flex_direction = ROW, !.padding = 0, !.border = FALSE,
                       !.flex_grow = 1],
      [YogaNode EXCEPT !.flex_direction = ROW, !.content = Text],
      [YogaNode EXCEPT !.flex_grow = 1, !.content = Text],
      [YogaNode EXCEPT !.width = Some(4), !.content = Text],
      [YogaNode EXCEPT !.width = Some(20), !.flex_grow = 2, !.padding = -1] }

(* The last call made on the root, and for render and _render_node whether *)
(* it repeats the call before it (the same call, with the same arguments). *)
NoCall == [op |-> "none", w |-> 0, h |-> 0, again |-> FALSE]

Call(op, w, h) ==
    [op |-> op, w |-> w, h |-> h,
     again |-> (op # "calculate_layout" /\ last.op = op /\ last.w = w /\ last.h = h)]

NoOutput == [raised |-> FALSE, text |-> <<>>]

(* No call is being run step by step. *)
Idle == [op |-> "none", w |-> 0, h |-> 0, stack |-> <<>>, visits |-> <<>>,
         grid |-> <<>>]

Init ==
    /\ nodes \in {<<s>> : s \in Styles}
    /\ out = NoOutput
    /\ writes = <<>>
    /\ last = NoCall
    /\ run = Idle

(* parent.add_child(YogaNode(...)): a new node, appended to the children.  *)
(* Trees are built before the first layout pass (section 3, Lifecycle).    *)
add_child(parent, style) ==
    /\ Len(nodes) < MaxNodes
    /\ last = NoCall
    /\ nodes' = Append([nodes EXCEPT ![parent].children = Append(@, Len(nodes) + 1)],
                       style)
    /\ UNCHANGED <<out, writes, last, run>>

AddChild == \E parent \in 1..Len(nodes), style \in Styles : add_child(parent, style)

CalculateLayout ==
    \E sz \in TermSizes :
        /\ nodes' = calculate_layout(nodes, 1, sz[1], sz[2])
        /\ out' = NoOutput
        /\ writes' = <<>>
        /\ last' = Call("calculate_layout", sz[1], sz[2])
        /\ UNCHANGED run

Render ==
    \E sz \in TermSizes :
        \E st \in {render(nodes, sz[1], sz[2])} :
            /\ nodes' = st.nodes
            /\ writes' = st.log
            /\ out' = [raised |-> st.raised,
                       text |-> IF st.raised THEN <<>> ELSE join(st.grid, 1)]
            /\ last' = Call("render", sz[1], sz[2])
            /\ UNCHANGED run

Next == AddChild \/ CalculateLayout \/ Render

Spec == Init /\ [][Next]_vars


(* ------------------------------- claims -------------------------------- *)

LaidOut == last.op # "none"

LaidOutAt(w, h) == LaidOut /\ last.w = w /\ last.h = h

Rendered == last.op = "render"

NodeIds == 1..Len(nodes)

Parents == {n \in NodeIds : nodes[n].children # <<>>}

ChildrenOf(n) == {nodes[n].children[i] : i \in 1..Len(nodes[n].children)}

Inset(n) == nodes[n].padding + (IF nodes[n].border THEN 1 ELSE 0)

ContentWidth(n) == nodes[n].computed_width - 2 * Inset(n)

ContentHeight(n) == nodes[n].computed_height - 2 * Inset(n)

RECURSIVE SumComputedWidth(_, _)
SumComputedWidth(cs, i) ==
    IF i > Len(cs) THEN 0
    ELSE nodes[cs[i]].computed_width + SumComputedWidth(cs, i + 1)

Depth2Nodes == {c \in NodeIds : \E p \in ChildrenOf(1) : c \in ChildrenOf(p)}

(* C1: render called twice in a row with the same terminal size returns    *)
(* the same string and leaves every node's computed fields as the first    *)
(* call left them.                                                         *)
C1_RenderIdempotent ==
    [][(last.op = "render" /\ last'.op = "render"
          /\ last'.w = last.w /\ last'.h = last.h)
       => (out' = out /\ nodes' = nodes)]_vars

(* C1 witness: a second render in a row on a tree with a node at depth 2   *)
(* whose painted position is offset from the origin.                       *)
C1_Witness ==
    /\ Rendered /\ last.again
    /\ \E c \in Depth2Nodes : nodes[c].computed_x > 1 /\ nodes[c].computed_y > 1

(* C2: in a Row parent whose children have no fixed width, the children's  *)
(* computed widths add up to the parent's content width.                   *)
C2_Conservation ==
    LaidOut =>
        \A n \in Parents :
            (/\ nodes[n].flex_direction = ROW
             /\ \A c \in ChildrenOf(n) : nodes[c].width = None)
            => SumComputedWidth(nodes[n].children, 1) = ContentWidth(n)

(* C3: after a layout pass every non-root node's rectangle lies inside its *)
(* parent's content rectangle (coordinates relative to the parent, as the  *)
(* layout pass leaves them).                                               *)
C3_Containment ==
    (last.op = "calculate_layout" /\ \A n \in NodeIds : nodes[n].padding >= 0) =>
        \A n \in Parents : \A c \in ChildrenOf(n) :
            /\ nodes[c].computed_x >= Inset(n)
            /\ nodes[c].computed_y >= Inset(n)
            /\ nodes[c].computed_x + nodes[c].computed_width
                   <= nodes[n].computed_width - Inset(n)
            /\ nodes[c].computed_y + nodes[c].computed_height
                   <= nodes[n].computed_height - Inset(n)

(* C4: a Row root at 10x5, padding 0, no border, with two children of      *)
(* flex_grow 1 and no fixed size gives each child 5x5, at x = 0 and x = 5. *)
C4_Scenario1 ==
    (/\ LaidOutAt(10, 5)
     /\ nodes[1].flex_direction = ROW /\ nodes[1].padding = 0 /\ ~nodes[1].border
     /\ nodes[1].width = None /\ nodes[1].height = None
     /\ Len(nodes[1].children) = 2
     /\ \A c \in ChildrenOf(1) :
            nodes[c].flex_grow = 1 /\ nodes[c].width = None /\ nodes[c].height = None)
    => /\ \A c \in ChildrenOf(1) :
               nodes[c].computed_width = 5 /\ nodes[c].computed_height = 5
       /\ nodes[nodes[1].children[1]].computed_x = 0
       /\ nodes[nodes[1].children[2]].computed_x = 5

(* C5: a Row root at 12x3 with one child of fixed width 4 (and the default *)
(* flex_grow 0) and one child of flex_grow 1 and no fixed width gives the  *)
(* fixed child width 4 and the flex child width 8.                         *)
C5_Pre(f, g) ==
    /\ LaidOutAt(12, 3)
    /\ nodes[1].flex_direction = ROW
    /\ ChildrenOf(1) = {f, g} /\ f # g
    /\ nodes[f].width = Some(4) /\ nodes[f].flex_grow = 0
    /\ nodes[g].width = None /\ nodes[g].flex_grow = 1

C5_Scenario2 ==
    \A f, g \in NodeIds :
        C5_Pre(f, g) => nodes[f].computed_width = 4 /\ nodes[g].computed_width = 8

C5_Witness == \E f, g \in NodeIds : C5_Pre(f, g) /\ last.op = "calculate_layout"

(* C6: a parent with exactly one child, of flex_grow 1 and no fixed size,  *)
(* gives the child the width and height of the parent's content box.       *)
C6_SingleFullGrow ==
    LaidOut =>
        \A n \in Parents :
            (/\ Len(nodes[n].children) = 1 /\ nodes[n].padding >= 0
             /\ \A c \in ChildrenOf(n) :
                    nodes[c].flex_grow = 1 /\ nodes[c].width = None
                                           /\ nodes[c].height = None)
            => \A c \in ChildrenOf(n) :
                   /\ nodes[c].computed_width = ContentWidth(n)
                   /\ nodes[c].computed_height = ContentHeight(n)

(* C7: after a layout pass every node has computed_width >= 0 and          *)
(* computed_height >= 0.                                                   *)
C7_NonNegative ==
    LaidOut =>
        \A n \in NodeIds :
            nodes[n].computed_width >= 0 /\ nodes[n].computed_height >= 0

(* C8: every assignment render makes to the grid targets a cell with       *)
(* 0 <= row < terminal_height and 0 <= col < terminal_width.               *)
C8_ClippingSafety ==
    Rendered =>
        \A i \in 1..Len(writes) :
            /\ 0 <= writes[i].row /\ writes[i].row < last.h
            /\ 0 <= writes[i].col /\ writes[i].col < last.w

(* C8 witness: a render in which a node whose rectangle reaches beyond the *)
(* right edge of the terminal, and a node whose position is negative, have *)
(* both written to the grid.                                               *)
C8_Witness ==
    /\ Rendered
    /\ \E n \in NodeIds :
          /\ nodes[n].computed_x + nodes[n].computed_width > last.w
          /\ \E i \in 1..Len(writes) : writes[i].node = n
    /\ \E n \in NodeIds :
          /\ nodes[n].computed_x < 0 /\ nodes[n].computed_y < 0
          /\ \E i \in 1..Len(writes) : writes[i].node = n

(* C9: a bordered node whose computed width or height is 2 or less writes  *)
(* no border glyph, and the render does not raise.                         *)
C9_Degenerate(n) ==
    /\ nodes[n].border
    /\ (nodes[n].computed_width <= 2 \/ nodes[n].computed_height <= 2)

C9_DegenerateBorder ==
    Rendered =>
        \A n \in NodeIds :
            C9_Degenerate(n) =>
                /\ ~out.raised
                /\ \A i \in 1..Len(writes) :
                       writes[i].node = n =>
                           (writes[i].kind # "border" /\ writes[i].ch \notin BorderGlyphs)

(* C9 witness: a bordered node of computed width exactly 2 (and height     *)
(* above 2) was painted on a terminal that has room for it.                *)
C9_Witness ==
    /\ Rendered /\ last.w >= 10
    /\ \E n \in NodeIds :
          /\ nodes[n].border /\ nodes[n].computed_width = 2
          /\ nodes[n].computed_height > 2

(* C10: render returns terminal_height rows of exactly terminal_width      *)
(* characters each, joined by newlines.                                    *)
C10_OutputShape ==
    Rendered =>
        /\ ~out.raised
        /\ Len(out.text) = (IF last.h = 0 THEN 0 ELSE last.h * (last.w + 1) - 1)
        /\ \A i \in 1..Len(out.text) :
               (out.text[i] = NL) <=> (i % (last.w + 1) = 0)

(* C10 witness: a render whose painting wrote border and content cells.    *)
C10_Witness ==
    /\ Rendered /\ last.h > 0 /\ last.w > 0
    /\ \E i, j \in 1..Len(writes) :
          writes[i].kind = "border" /\ writes[j].kind = "content"

(* --------------------- stale computed state (C11) ---------------------- *)

(* Values a node's computed_* fields may hold before a layout pass: the    *)
(* dataclass defaults, or leftovers (YogaNode(computed_x=3, ...)).         *)
StaleComputed ==
    { [x |-> 0, y |-> 0, w |-> 0, h |-> 0], [x |-> 3, y |-> 1, w |-> 7, h |-> 2] }

WithComputed(node, c) ==
    [node EXCEPT !.computed_x = c.x, !.computed_y = c.y,
                 !.computed_width = c.w, !.computed_height = c.h]

InitStale ==
    /\ nodes \in {<<WithComputed(s, c)>> : s \in Styles, c \in StaleComputed}
    /\ out = NoOutput
    /\ writes = <<>>
    /\ last = NoCall
    /\ run = Idle

SpecStale == InitStale /\ [][Next]_vars

(* The four computed fields of every node. *)
Computed(ns) ==
    [n \in 1..Len(ns) |-> <<ns[n].computed_x, ns[n].computed_y,
                            ns[n].computed_width, ns[n].computed_height>>]

(* The copy of the tree with every computed field at its default. *)
Fresh(ns) ==
    [n \in 1..Len(ns) |-> WithComputed(ns[n], [x |-> 0, y |-> 0, w |-> 0, h |-> 0])]

(* C11: after calculate_layout(w, h) and after render(w, h) the computed   *)
(* fields of every node, and the rendered string, are what the same call   *)
(* gives on the copy of the tree whose computed fields were all 0 before.  *)
C11_StaleOverwritten ==
    /\ last.op = "calculate_layout" =>
           Computed(nodes) = Computed(calculate_layout(Fresh(nodes), 1, last.w, last.h))
    /\ last.op = "render" =>
           \E st \in {render(Fresh(nodes), last.w, last.h)} :
               /\ Computed(nodes) = Computed(st.nodes)
               /\ out = [raised |-> st.raised,
                         text |-> IF st.raised THEN <<>> ELSE join(st.grid, 1)]

(* The position the layout pass gives the i-th child of p inside p (lines  *)
(* 99, 111-112, 119 and 126, 138-139, 146), from the siblings' sizes.      *)
RECURSIVE MainOffset(_, _)
MainOffset(p, i) ==
    IF i = 1 THEN nodes[p].padding
    ELSE MainOffset(p, i - 1) + nodes[p].padding
           + (IF nodes[p].flex_direction = ROW
              THEN nodes[nodes[p].children[i - 1]].computed_width
              ELSE nodes[nodes[p].children[i - 1]].computed_height)

OffsetInParent(p, i) ==
    IF nodes[p].flex_direction = ROW
    THEN <<MainOffset(p, i), nodes[p].padding>>
    ELSE <<nodes[p].padding, MainOffset(p, i)>>

(* C12: right after calculate_layout every non-root node's computed_x and  *)
(* computed_y are absolute: its parent's position plus its own offset      *)
(* inside the parent (so, at depth 2 and below, the sum over ancestors).   *)
C12_AbsoluteAfterLayout ==
    last.op = "calculate_layout" =>
        \A p \in Parents : \A i \in 1..Len(nodes[p].children) :
            LET c == nodes[p].children[i]
            IN  /\ nodes[c].computed_x = nodes[p].computed_x + OffsetInParent(p, i)[1]
                /\ nodes[c].computed_y = nodes[p].computed_y + OffsetInParent(p, i)[2]

(* ------------------- painting without a layout pass -------------------- *)

(* root._render_node(grid, w, h) on a fresh grid, called directly; `out`   *)
(* holds the grid it leaves.  Paint steps come in runs of at most two, the *)
(* second with a grid of the same size as the first.                       *)
Paint ==
    \E sz \in TermSizes :
        /\ last.op = "paint" => (~last.again /\ last.w = sz[1] /\ last.h = sz[2])
        /\ \E st \in {render_node([nodes |-> nodes,
                                   grid |-> BlankGrid(sz[1], sz[2]),
                                   log |-> <<>>, raised |-> FALSE],
                                  1, sz[1], sz[2])} :
              /\ nodes' = st.nodes
              /\ writes' = st.log
              /\ out' = [raised |-> st.raised,
                         text |-> IF st.raised THEN <<>> ELSE join(st.grid, 1)]
              /\ last' = Call("paint", sz[1], sz[2])
              /\ UNCHANGED run

NextPaint == Next \/ Paint

SpecPaint == Init /\ [][NextPaint]_vars

(* C13: a paint step leaves every node's computed_x and computed_y as they *)
(* were, and a second paint in a row on a fresh grid of the same size      *)
(* leaves the same grid contents as the first.                             *)
C13_RepaintIdempotent ==
    [][(/\ last'.op = "paint" /\ last.op \in {"calculate_layout", "paint"}
        /\ last'.w = last.w /\ last'.h = last.h)
       => /\ Computed(nodes') = Computed(nodes)
          /\ last.op = "paint" => out' = out]_vars

(* C14: calculate_layout and render change no style field and no children *)
(* list of any node: only the four computed_* fields may differ after a    *)
(* call.                                                                   *)
C14_StyleFrame ==
    [][last'.op \in {"calculate_layout", "render"} => Fresh(nodes') = Fresh(nodes)]_vars

(* C14 witness: a render has moved and sized the nodes of a three-node     *)
(* tree.                                                                   *)
C14_Witness ==
    /\ Rendered /\ Len(nodes) = 3
    /\ \A n \in NodeIds : nodes[n].computed_width # 0
    /\ \E n \in NodeIds : nodes[n].computed_x > 0

(* ------------------ out-of-range style values (C15) -------------------- *)

(* Styles with zero and negative width, height, padding and flex_grow.     *)
EdgeStyles ==
    { [YogaNode EXCEPT !.flex_direction = ROW, !.padding = 0, !.border = FALSE,
                       !.flex_grow = 1],
      [YogaNode EXCEPT !.flex_grow = -1, !.content = Text],
      [YogaNode EXCEPT !.width = Some(0), !.content = Text],
      [YogaNode EXCEPT !.flex_direction = ROW, !.width = Some(-3),
                       !.height = Some(0), !.padding = -1],
      [YogaNode EXCEPT !.flex_grow = 2, !.height = Some(-1), !.padding = 0] }

InitEdge ==
    /\ nodes \in {<<s>> : s \in EdgeStyles}
    /\ out = NoOutput
    /\ writes = <<>>
    /\ last = NoCall
    /\ run = Idle

AddChildEdge ==
    \E parent \in 1..Len(nodes), style \in EdgeStyles : add_child(parent, style)

NextEdge == AddChildEdge \/ CalculateLayout \/ Render

SpecEdge == InitEdge /\ [][NextEdge]_vars

(* C15: render never raises, whatever the integer style values (negative   *)
(* or zero width, height, padding, flex_grow) and the terminal size (0x0   *)
(* included): it returns a string, and every assignment it makes to the    *)
(* grid is to an existing cell.                                            *)
C15_NoRaise ==
    Rendered =>
        /\ ~out.raised
        /\ \A i \in 1..Len(writes) :
               ~RaisesIndexError(BlankGrid(last.w, last.h), writes[i])

(* C15 witness: a render that drew something on a tree holding a node of   *)
(* negative size, a node at a negative position and a negative flex_grow.  *)
C15_Witness ==
    /\ Rendered /\ writes # <<>>
    /\ \E n \in NodeIds : nodes[n].computed_width < 0
    /\ \E n \in NodeIds : nodes[n].computed_x < 0
    /\ \E n \in NodeIds : nodes[n].flex_grow < 0

(* C15 witness at 0x0 is covered by the same formula; this one names it.   *)
C15_WitnessZero ==
    Rendered /\ last.w = 0 /\ last.h = 0 /\ Len(nodes) = 3

(* ------------------ negative flex_grow (C18) --------------------------- *)

ClampGrow(ns) ==
    [n \in 1..Len(ns) |-> [ns[n] EXCEPT !.flex_grow = Max(0, ns[n].flex_grow)]]

(* C18: a negative flex_grow is treated as 0: the layout of a tree equals  *)
(* the layout of the same tree with every negative flex_grow replaced by   *)
(* 0, so that such a child takes no share of the remaining space and adds  *)
(* nothing to the total.                                                   *)
C18_NegativeGrowClamped ==
    last.op = "calculate_layout" =>
        Computed(nodes) =
            Computed(calculate_layout(ClampGrow(nodes), 1, last.w, last.h))

(* ------------------ own size resolution (C19) -------------------------- *)

(* C19: after calculate_layout(aw, ah) a node's computed_width is its      *)
(* width whenever width is set (0 included) and the width handed down to   *)
(* it only when width is absent; the same for the height.                  *)
C19_OwnSize ==
    last.op = "calculate_layout" =>
        /\ \A n \in NodeIds :
              /\ nodes[n].width # None => nodes[n].computed_width = nodes[n].width[1]
              /\ nodes[n].height # None => nodes[n].computed_height = nodes[n].height[1]
        /\ nodes[1].width = None => nodes[1].computed_width = last.w
        /\ nodes[1].height = None => nodes[1].computed_height = last.h

(* ------------------ children's main-axis space (C20) ------------------- *)

ParentOf(n) == CHOOSE p \in NodeIds : n \in ChildrenOf(p)

RECURSIVE AvailableWidth(_)
RECURSIVE AvailableHeight(_)

(* The available_width node n was laid out with by the last call.          *)
AvailableWidth(n) ==
    IF n = 1 THEN last.w
    ELSE LET p == ParentOf(n)
         IN  IF nodes[p].flex_direction = ROW
             THEN RowChildWidth(nodes, p, n, AvailableWidth(p))
             ELSE AvailableWidth(p) - (2 * nodes[p].padding)

(* The available_height node n was laid out with by the last call.         *)
AvailableHeight(n) ==
    IF n = 1 THEN last.h
    ELSE LET p == ParentOf(n)
         IN  IF nodes[p].flex_direction = ROW
             THEN AvailableHeight(p) - (2 * nodes[p].padding)
             ELSE ColumnChildHeight(nodes, p, n, AvailableHeight(p))

(* The sizes handed down are the ones the computed sizes were taken from.  *)
AvailableAgrees ==
    last.op = "calculate_layout" =>
        \A n \in NodeIds :
            /\ nodes[n].computed_width = OrElse(nodes[n].width, AvailableWidth(n))
            /\ nodes[n].computed_height = OrElse(nodes[n].height, AvailableHeight(n))

(* C20: the main-axis extent a parent distributes among its children is    *)
(* the parent's computed size on that axis less 2*padding, less 2 if the   *)
(* parent is bordered, whatever the number of children.                    *)
C20_MainAxisSpace ==
    last.op = "calculate_layout" =>
        \A p \in Parents :
            IF nodes[p].flex_direction = ROW
            THEN remaining_width(nodes, p, AvailableWidth(p))
                     = nodes[p].computed_width - 2 * Inset(p)
            ELSE remaining_height(nodes, p, AvailableHeight(p))
                     = nodes[p].computed_height - 2 * Inset(p)

(* ------------------ painting order (C17) ------------------------------- *)

RECURSIVE Subtree(_)
Subtree(n) == {n} \cup UNION {Subtree(c) : c \in ChildrenOf(n)}

(* The character of the returned string at grid cell (row, col). *)
GlyphAt(row, col) == out.text[row * (last.w + 1) + col + 1]

SameCell(a, b) == a.row = b.row /\ a.col = b.col

RECURSIVE PreorderFrom(_, _)

(* The nodes of the subtree of n, depth first: n, then the subtrees of its *)
(* children in insertion order.                                            *)
Preorder(n) == <<n>> \o PreorderFrom(nodes[n].children, 1)

PreorderFrom(cs, i) ==
    IF i > Len(cs) THEN <<>> ELSE Preorder(cs[i]) \o PreorderFrom(cs, i + 1)

Rank(n) == CHOOSE k \in 1..Len(nodes) : Preorder(1)[k] = n

(* C17: within one render the grid writes are made in depth-first order of *)
(* the tree: every write for a node comes before every write for any of    *)
(* its descendants, and the writes for a sibling and its subtree before    *)
(* those for a sibling inserted later; and a cell written several times    *)
(* holds in the returned string the glyph of the last write made to it.    *)
C17_PaintingOrder ==
    (Rendered /\ ~out.raised) =>
        /\ \A i \in 1..(Len(writes) - 1) :
               Rank(writes[i].node) <= Rank(writes[i + 1].node)
        /\ \A i \in 1..Len(writes) :
               (\A j \in (i + 1)..Len(writes) : ~SameCell(writes[i], writes[j]))
                   => GlyphAt(writes[i].row, writes[i].col) = writes[i].ch

(* C17 witness: a render in which a descendant overwrote a cell of its     *)
(* ancestor with another glyph, and two siblings both painted.             *)
C17_Witness ==
    /\ Rendered /\ ~out.raised
    /\ \E i, j \in 1..Len(writes) :
           /\ i < j /\ SameCell(writes[i], writes[j])
           /\ writes[j].node \in Subtree(writes[i].node) \ {writes[i].node}
           /\ writes[i].ch # writes[j].ch
           /\ GlyphAt(writes[j].row, writes[j].col) = writes[j].ch
    /\ \E p \in Parents :
           /\ Len(nodes[p].children) = 2
           /\ \A a \in 1..2 : \E i \in 1..Len(writes) :
                  writes[i].node = nodes[p].children[a]

(* ------------------ calls run step by step (C16) ----------------------- *)

(* The styles of the trees whose calls are run one frame at a time. *)
StepStyles ==
    { YogaNode,
      [YogaNode EXCEPT !.flex_direction = ROW, !.padding = 0, !.border = FALSE,
                       !.flex_grow = 1],
      [YogaNode EXCEPT !.width = Some(4), !.content = Text] }

(* Lines 82-83: the node's own computed size. *)
resolve_size(ns, n, available_width, available_height) ==
    [ns EXCEPT ![n].computed_width = OrElse(ns[n].width, available_width),
               ![n].computed_height = OrElse(ns[n].height, available_height)]

(* Lines 164-206: the node's own border and content, and the clipped x, y  *)
(* its children are offset by.                                             *)
render_node_own(st, n, terminal_width, terminal_height) ==
    LET self == st.nodes[n]
        x == ClipX(self.computed_x, terminal_width)
        y == ClipX(self.computed_y, terminal_height)
        w == ClipW(self.computed_width, x, terminal_width)
        h == ClipW(self.computed_height, y, terminal_height)
        border == IF DrawsBorder(self, w, h)
                  THEN BorderCells(x, y, w, h, terminal_width, terminal_height)
                  ELSE <<>>
        content == IF DrawsContent(self, w, h)
                   THEN ContentCells(self.content, x, y, w, h,
                                     terminal_width, terminal_height)
                   ELSE <<>>
    IN  [st |-> SetCells(st, n, border \o content), x |-> x, y |-> y]

(* A frame of the call stack: the method, its node, the index of the child *)
(* the for loop is at (for render, the statement it is at), and the        *)
(* method's arguments and locals.                                          *)
Frame(pass, n, i, available_width, available_height, current, x, y) ==
    [pass |-> pass, self |-> n, i |-> i,
     available_width |-> available_width, available_height |-> available_height,
     current |-> current, x |-> x, y |-> y]

(* calculate_layout entered on node n: current_x / current_y = padding.    *)
LayoutFrame(n, available_width, available_height) ==
    Frame("layout", n, 1, available_width, available_height, nodes[n].padding, 0, 0)

(* _render_node entered on node n, with its clipped x and y. *)
PaintFrame(n, x, y) == Frame("paint", n, 1, 0, 0, 0, x, y)

(* render entered: at line 151, the call of calculate_layout. *)
RenderFrame == Frame("render", 1, 1, 0, 0, 0, 0, 0)

Running == run.stack # <<>>

Finished == run.op # "none" /\ run.stack = <<>>

Top == run.stack[Len(run.stack)]

Pop == SubSeq(run.stack, 1, Len(run.stack) - 1)

Visit(pass, n) == [pass |-> pass, node |-> n]

(* The root's calculate_layout or render is called: lines 82-83 on the     *)
(* root, for render from line 151.                                         *)
BeginCall(op) ==
    \E sz \in TermSizes :
        /\ ~Running
        /\ nodes' = resolve_size(nodes, 1, sz[1], sz[2])
        /\ out' = NoOutput
        /\ writes' = <<>>
        /\ last' = Call(op, sz[1], sz[2])
        /\ run' = [op |-> op, w |-> sz[1], h |-> sz[2],
                   stack |-> (IF op = "render" THEN <<RenderFrame>> ELSE <<>>)
                                 \o <<LayoutFrame(1, sz[1], sz[2])>>,
                   visits |-> <<Visit("layout", 1)>>,
                   grid |-> <<>>]

BeginLayout == BeginCall("calculate_layout")

BeginRender == BeginCall("render")

(* Lines 100-117 / 127-144: one turn of the for loop up to the recursive   *)
(* call, and lines 82-83 of the child.                                     *)
LayoutCall ==
    /\ Running /\ Top.pass = "layout"
    /\ Top.i <= Len(nodes[Top.self].children)
    /\ LET n == Top.self
           c == nodes[n].children[Top.i]
           row == nodes[n].flex_direction = ROW
           child_width == IF row THEN RowChildWidth(nodes, n, c, Top.available_width)
                          ELSE Top.available_width - (2 * nodes[n].padding)
           child_height == IF row THEN Top.available_height - (2 * nodes[n].padding)
                           ELSE ColumnChildHeight(nodes, n, c, Top.available_height)
           ns1 == [nodes EXCEPT
                     ![c].computed_x = IF row THEN Top.current ELSE nodes[n].padding,
                     ![c].computed_y = IF row THEN nodes[n].padding ELSE Top.current,
                     ![c].computed_width = child_width,
                     ![c].computed_height = child_height]
       IN  /\ nodes' = resolve_size(ns1, c, child_width, child_height)
           /\ run' = [run EXCEPT
                        !.stack = Append(@, LayoutFrame(c, child_width, child_height)),
                        !.visits = Append(@, Visit("layout", c))]
    /\ UNCHANGED <<out, writes, last>>

(* Mutant of LayoutReturn: the caller's loop stays at the same child.      *)
LayoutReturnNoAdvance ==
    /\ Running /\ Top.pass = "layout"
    /\ Top.i > Len(nodes[Top.self].children)
    /\ run' = [run EXCEPT !.stack =
                 IF Pop = <<>> THEN <<>>
                 ELSE IF Pop[Len(Pop)].pass = "render"
                      THEN [Pop EXCEPT ![Len(Pop)].i = 2]
                      ELSE Pop]
    /\ UNCHANGED <<nodes, out, writes, last>>

(* calculate_layout returns (lines 85-86, or the end of the for loop); in  *)
(* the caller, line 119 / 146 advances current_x / current_y and the loop  *)
(* moves to the next child; render goes on to line 154.                    *)
LayoutReturn ==
    /\ Running /\ Top.pass = "layout"
    /\ Top.i > Len(nodes[Top.self].children)
    /\ run' = [run EXCEPT !.stack =
                 IF Pop = <<>> THEN <<>>
                 ELSE LET p == Pop[Len(Pop)]
                          n == p.self
                          c == Top.self
                          size == IF nodes[n].flex_direction = ROW
                                  THEN RowChildWidth(nodes, n, c, p.available_width)
                                  ELSE ColumnChildHeight(nodes, n, c, p.available_height)
                      IN  IF p.pass = "render"
                          THEN [Pop EXCEPT ![Len(Pop)].i = 2]
                          ELSE [Pop EXCEPT ![Len(Pop)].i = @ + 1,
                                           ![Len(Pop)].current = @ + size + nodes[n].padding]]
    /\ UNCHANGED <<nodes, out, writes, last>>

(* What the call has returned so far: an IndexError leaves every frame,   *)
(* and the call ends without a string.                                     *)
Raised(st) == IF st.raised THEN [raised |-> TRUE, text |-> <<>>] ELSE out

(* Lines 154-157 of render: the blank grid, and _render_node on the root   *)
(* up to its loop over the children.                                       *)
RenderPaint ==
    /\ Running /\ Top.pass = "render" /\ Top.i = 2
    /\ \E own \in {render_node_own([nodes |-> nodes, grid |-> BlankGrid(run.w, run.h),
                                    log |-> <<>>, raised |-> FALSE],
                                   1, run.w, run.h)} :
           /\ writes' = own.st.log
           /\ out' = Raised(own.st)
           /\ run' = [run EXCEPT
                        !.grid = own.st.grid,
                        !.stack = IF own.st.raised THEN <<>>
                                  ELSE Append([@ EXCEPT ![Len(@)].i = 3],
                                              PaintFrame(1, own.x, own.y)),
                        !.visits = Append(@, Visit("paint", 1))]
    /\ UNCHANGED <<nodes, last>>

(* Lines 209-212: one turn of the loop over the children, and the child's  *)
(* _render_node up to its own loop.                                        *)
PaintCall ==
    /\ Running /\ Top.pass = "paint"
    /\ Top.i <= Len(nodes[Top.self].children)
    /\ \E own \in {render_node_own(
                       [nodes |-> [nodes EXCEPT
                           ![nodes[Top.self].children[Top.i]].computed_x = @ + Top.x,
                           ![nodes[Top.self].children[Top.i]].computed_y = @ + Top.y],
                        grid |-> run.grid, log |-> writes, raised |-> FALSE],
                       nodes[Top.self].children[Top.i], run.w, run.h)} :
           /\ nodes' = own.st.nodes
           /\ writes' = own.st.log
           /\ out' = Raised(own.st)
           /\ run' = [run EXCEPT
                        !.grid = own.st.grid,
                        !.stack = IF own.st.raised THEN <<>>
                                  ELSE Append(@, PaintFrame(nodes[Top.self].children[Top.i],
                                                            own.x, own.y)),
                        !.visits = Append(@, Visit("paint", nodes[Top.self].children[Top.i]))]
    /\ UNCHANGED last

(* _render_node returns at the end of its loop; the caller's loop moves to *)
(* the next child.                                                         *)
PaintReturn ==
    /\ Running /\ Top.pass = "paint"
    /\ Top.i > Len(nodes[Top.self].children)
    /\ run' = [run EXCEPT !.stack =
                 IF Pop[Len(Pop)].pass = "paint"
                 THEN [Pop EXCEPT ![Len(Pop)].i = @ + 1]
                 ELSE Pop]
    /\ UNCHANGED <<nodes, out, writes, last>>

(* Line 160 of render: the grid joined into the returned string. *)
RenderReturn ==
    /\ Running /\ Top.pass = "render" /\ Top.i = 3
    /\ out' = [raised |-> FALSE, text |-> join(run.grid, 1)]
    /\ run' = [run EXCEPT !.stack = <<>>]
    /\ UNCHANGED <<nodes, writes, last>>

AddChildStep ==
    \E parent \in 1..Len(nodes), style \in StepStyles : add_child(parent, style)

Step ==
    \/ LayoutCall
    \/ LayoutReturn
    \/ RenderPaint
    \/ PaintCall
    \/ PaintReturn
    \/ RenderReturn

InitSteps ==
    /\ nodes \in {<<s>> : s \in StepStyles}
    /\ out = NoOutput
    /\ writes = <<>>
    /\ last = NoCall
    /\ run = Idle

NextSteps == AddChildStep \/ BeginLayout \/ BeginRender \/ Step

(* The guard of RenderPaint and PaintCall: past it, both only assign.      *)
CanPaint ==
    /\ Running
    /\ \/ Top.pass = "render" /\ Top.i = 2
       \/ Top.pass = "paint" /\ Top.i <= Len(nodes[Top.self].children)

(* A call that has been entered goes on running: Python executes the next  *)
(* statement of the running call.  This is weak fairness of every step;    *)
(* for the two painting steps it is written out, with their guard CanPaint *)
(* for their enabledness.                                                  *)
SpecSteps ==
    /\ InitSteps /\ [][NextSteps]_vars
    /\ WF_vars(LayoutCall \/ LayoutReturn \/ PaintReturn \/ RenderReturn)
    /\ ([]<>(~CanPaint) \/ []<><<RenderPaint \/ PaintCall>>_vars)

Visits(pass, n) ==
    Cardinality({i \in 1..Len(run.visits) : run.visits[i] = Visit(pass, n)})

(* The call run step by step ends in the state the whole call is modelled  *)
(* to end in.                                                              *)
StepsAgree ==
    Finished =>
        IF run.op = "calculate_layout"
        THEN nodes = calculate_layout(nodes, 1, run.w, run.h)
        ELSE \E st \in {render(nodes, run.w, run.h)} :
                 /\ nodes = st.nodes
                 /\ writes = st.log
                 /\ out = [raised |-> st.raised,
                           text |-> IF st.raised THEN <<>> ELSE join(st.grid, 1)]

(* C16: on a finite tree calculate_layout and render eventually finish,    *)
(* and by then the layout pass, and for render the paint pass too, has     *)
(* visited every node of the tree exactly once (and never more than once   *)
(* on the way).                                                            *)
C16_Terminates ==
    /\ [](\A n \in NodeIds :
              /\ Visits("layout", n) <= 1
              /\ Visits("paint", n) <= 1)
    /\ [](Finished =>
              \A n \in NodeIds :
                  /\ Visits("layout", n) = 1
                  /\ Visits("paint", n) = (IF run.op = "render" THEN 1 ELSE 0))
    /\ (Running ~> Finished)

(* C16 witness: a render of a three-node chain has finished. *)
C16_Witness ==
    /\ Finished /\ run.op = "render" /\ ~out.raised
    /\ Len(nodes) = 3 /\ Depth2Nodes # {}
    /\ Len(run.visits) = 6

(* ------------------ sharing the main axis (C21, C22, C23) -------------- *)

IsRow(p) == nodes[p].flex_direction = ROW

(* The size of node c along the main axis of its parent p. *)
MainSize(p, c) ==
    IF IsRow(p) THEN nodes[c].computed_width ELSE nodes[c].computed_height

(* Whether c has a fixed size along the main axis of its parent p. *)
FixedMain(p, c) ==
    IF IsRow(p) THEN nodes[c].width # None ELSE nodes[c].height # None

(* The space the last call distributed among the children of p. *)
Remaining(p) ==
    IF IsRow(p) THEN remaining_width(nodes, p, AvailableWidth(p))
    ELSE remaining_height(nodes, p, AvailableHeight(p))

RECURSIVE SumMain(_, _)
(* The main-axis sizes of the first k children of p, added up. *)
SumMain(p, k) ==
    IF k = 0 THEN 0 ELSE SumMain(p, k - 1) + MainSize(p, nodes[p].children[k])

(* C21: when the children's flex_grow add up to more than 0, every child   *)
(* without a fixed main-axis size, other than the last, gets exactly       *)
(* floor(remaining * flex_grow / total) cells on the main axis, so such a  *)
(* child with flex_grow = 0 gets 0 cells.                                  *)
C21_ProportionalShare ==
    last.op = "calculate_layout" =>
        \A p \in Parents :
            LET cs == nodes[p].children
                total == SumFlexGrow(nodes, cs, 1)
            IN  total > 0 =>
                    \A i \in 1..(Len(cs) - 1) :
                        ~FixedMain(p, cs[i]) =>
                            MainSize(p, cs[i])
                                = FloorDiv(Remaining(p) * nodes[cs[i]].flex_grow, total)

(* C22: the last child's main-axis size is the remaining space less the    *)
(* main-axis sizes of the other children, so the children's main-axis      *)
(* sizes add up to the parent's remaining space, whether the flex_grow     *)
(* total is positive or zero.                                              *)
C22_LeftoverToLast ==
    last.op = "calculate_layout" =>
        \A p \in Parents :
            LET cs == nodes[p].children
            IN  ~FixedMain(p, cs[Len(cs)]) =>
                    MainSize(p, cs[Len(cs)]) = Remaining(p) - SumMain(p, Len(cs) - 1)

(* C23: in a row whose children are some of fixed width and the others     *)
(* sized by flex_grow, the flex children share the parent's content width  *)
(* less the fixed widths, so the children's widths add up to the parent's  *)
(* content width.                                                          *)
C23_FixedReduceFlex ==
    last.op = "calculate_layout" =>
        \A p \in Parents :
            (/\ IsRow(p)
             /\ \E c \in ChildrenOf(p) : nodes[c].width # None
             /\ \E c \in ChildrenOf(p) : nodes[c].width = None
             /\ \A c \in ChildrenOf(p) : nodes[c].width = None => nodes[c].flex_grow > 0)
            => SumMain(p, Len(nodes[p].children)) = ContentWidth(p)

(* ------------------ cross axis and placement (C24, C25) ---------------- *)

(* The size of node c across the main axis of its parent p. *)
CrossSize(p, c) ==
    IF IsRow(p) THEN nodes[c].computed_height ELSE nodes[c].computed_width

FixedCross(p, c) ==
    IF IsRow(p) THEN nodes[c].height # None ELSE nodes[c].width # None

(* The parent's content extent across its main axis. *)
CrossContent(p) == IF IsRow(p) THEN ContentHeight(p) ELSE ContentWidth(p)

(* C24: every child without a fixed cross-axis size gets the parent's      *)
(* cross-axis content extent (computed cross size less 2*padding, less 2   *)
(* if the parent is bordered) as its cross-axis size, and never less       *)
(* than 0.                                                                 *)
C24_CrossStretch ==
    last.op = "calculate_layout" =>
        \A p \in Parents : \A c \in ChildrenOf(p) :
            ~FixedCross(p, c) =>
                /\ CrossSize(p, c) = CrossContent(p)
                /\ CrossSize(p, c) >= 0

(* The parent-relative position of node c along the main axis of p, as the *)
(* layout pass leaves it.                                                  *)
MainPos(p, c) ==
    IF IsRow(p) THEN nodes[c].computed_x ELSE nodes[c].computed_y

(* C25: the first child's main-axis offset inside its parent is padding,   *)
(* plus 1 if the parent is bordered, and each later child starts at or     *)
(* after the end of the child before it, in insertion order.               *)
C25_MainPlacement ==
    last.op = "calculate_layout" =>
        \A p \in Parents :
            LET cs == nodes[p].children
            IN  /\ MainPos(p, cs[1]) = Inset(p)
                /\ \A i \in 2..Len(cs) :
                       MainPos(p, cs[i])
                           >= MainPos(p, cs[i - 1]) + MainSize(p, cs[i - 1])

(* ------------------ what a node paints (C26, C27) ---------------------- *)

(* The clipped rectangle node n was painted at by the last render: its     *)
(* position is final once its parent has added its own.                    *)
RectX(n) == ClipX(nodes[n].computed_x, last.w)

RectY(n) == ClipX(nodes[n].computed_y, last.h)

RectW(n) == ClipW(nodes[n].computed_width, RectX(n), last.w)

RectH(n) == ClipW(nodes[n].computed_height, RectY(n), last.h)

(* The grid writes of the given kind made for node n, as cells. *)
Written(n, kind) ==
    {[row |-> writes[j].row, col |-> writes[j].col, ch |-> writes[j].ch] :
        j \in {j \in 1..Len(writes) : writes[j].node = n /\ writes[j].kind = kind}}

(* The cells the content of n is to occupy: character k of line i at       *)
(* column x+1+k, row y+1+i, for i < h-2 and k < w-2, inside the terminal.  *)
ContentExpected(n) ==
    LET lines == split(nodes[n].content, 1, <<>>)
    IN  UNION {
          {[row |-> RectY(n) + 1 + i, col |-> RectX(n) + 1 + k,
            ch |-> lines[i + 1][k + 1]] :
              k \in {k \in 0..(Len(lines[i + 1]) - 1) :
                       /\ k < RectW(n) - 2
                       /\ 0 <= RectX(n) + 1 + k /\ RectX(n) + 1 + k < last.w
                       /\ 0 <= RectY(n) + 1 + i /\ RectY(n) + 1 + i < last.h}} :
          i \in {i \in 0..(Len(lines) - 1) : i < RectH(n) - 2} }

(* C26: character k of content line i of a node painted at the clipped     *)
(* rectangle (x, y, w, h) is written to column x+1+k, row y+1+i exactly    *)
(* when i < h-2, k < w-2 and the cell is inside the terminal; nothing else *)
(* is written as content, so no content cell lies outside the interior,    *)
(* and the render does not raise.                                          *)
C26_ContentPlacement ==
    Rendered =>
        /\ ~out.raised
        /\ \A n \in NodeIds :
               /\ Written(n, "content") = ContentExpected(n)
               /\ \A c \in Written(n, "content") :
                      /\ RectX(n) < c.col /\ c.col < RectX(n) + RectW(n) - 1
                      /\ RectY(n) < c.row /\ c.row < RectY(n) + RectH(n) - 1

(* C26 witness: a render in which a node's content lost characters to the  *)
(* interior width and a node's content lost lines to the interior height.  *)
C26_Witness ==
    /\ Rendered /\ ~out.raised
    /\ \E n \in NodeIds :
           /\ Written(n, "content") # {}
           /\ RectW(n) - 2 < Len(split(nodes[n].content, 1, <<>>)[1])
    /\ \E n \in NodeIds :
           /\ Written(n, "content") # {}
           /\ RectH(n) - 2 < Len(split(nodes[n].content, 1, <<>>))

(* The node whose _render_node has just painted its own border and content *)
(* and has not painted a child yet.                                        *)
JustPainted == Running /\ Top.pass = "paint" /\ Top.i = 1

(* The glyph the perimeter cell (row, col) of the rectangle (x, y, w, h)   *)
(* is to hold.                                                             *)
PerimeterGlyph(row, col, x, y, w, h) ==
    IF row = y /\ col = x THEN BOX_TL
    ELSE IF row = y /\ col = x + w - 1 THEN BOX_TR
    ELSE IF row = y + h - 1 /\ col = x THEN BOX_BL
    ELSE IF row = y + h - 1 /\ col = x + w - 1 THEN BOX_BR
    ELSE IF row = y \/ row = y + h - 1 THEN BOX_H
    ELSE BOX_V

(* C27: a bordered node whose computed rectangle is at least 3x3 and lies  *)
(* inside the terminal has, right after its own paint step and before its  *)
(* children are painted, the four corner glyphs in the corners of its      *)
(* rectangle, the horizontal glyph in the rest of the top and bottom rows  *)
(* and the vertical glyph in the rest of the left and right columns, and   *)
(* has written no border glyph strictly inside the perimeter.              *)
C27_BorderDrawing ==
    JustPainted =>
        LET n == Top.self
            x == nodes[n].computed_x
            y == nodes[n].computed_y
            w == nodes[n].computed_width
            h == nodes[n].computed_height
        IN  (/\ nodes[n].border /\ w >= 3 /\ h >= 3
             /\ 0 <= x /\ x + w <= run.w
             /\ 0 <= y /\ y + h <= run.h)
            => /\ \A row \in y..(y + h - 1), col \in x..(x + w - 1) :
                      (row \in {y, y + h - 1} \/ col \in {x, x + w - 1})
                          => run.grid[row + 1][col + 1]
                                 = PerimeterGlyph(row, col, x, y, w, h)
               /\ \A c \in Written(n, "border") :
                      ~(/\ y < c.row /\ c.row < y + h - 1
                        /\ x < c.col /\ c.col < x + w - 1)
               /\ Cardinality({BOX_TL, BOX_TR, BOX_BL, BOX_BR, BOX_H, BOX_V}) = 6

(* C27 witness: a bordered child of at least 3x3 inside the terminal has   *)
(* just been painted, over a grid its parent has painted on.               *)
C27_Witness ==
    /\ JustPainted /\ Top.self # 1
    /\ nodes[Top.self].border
    /\ nodes[Top.self].computed_width >= 3 /\ nodes[Top.self].computed_height >= 3
    /\ 0 <= nodes[Top.self].computed_x
    /\ nodes[Top.self].computed_x + nodes[Top.self].computed_width <= run.w
    /\ 0 <= nodes[Top.self].computed_y
    /\ nodes[Top.self].computed_y + nodes[Top.self].computed_height <= run.h
    /\ Written(Top.self, "border") # {}

(* ------------------ positions after a render (C28) --------------------- *)

(* Node n lies inside the terminal of the last call: its origin is a cell  *)
(* of the terminal and its rectangle does not pass the right or bottom     *)
(* edge.                                                                   *)
InsideTerminal(n) ==
    /\ 0 <= nodes[n].computed_x /\ nodes[n].computed_x < last.w
    /\ 0 <= nodes[n].computed_y /\ nodes[n].computed_y < last.h
    /\ nodes[n].computed_x + nodes[n].computed_width <= last.w
    /\ nodes[n].computed_y + nodes[n].computed_height <= last.h

(* C28: after a render of a tree whose nodes all lie inside the terminal,  *)
(* every non-root node's computed_x is its parent's final computed_x plus  *)
(* the parent-relative offset the layout pass gave it, and likewise        *)
(* computed_y: the parent's offset has been added exactly once, at every   *)
(* depth.                                                                  *)
C28_OffsetOnce ==
    (Rendered /\ ~out.raised /\ \A n \in NodeIds : InsideTerminal(n)) =>
        \E rel \in {calculate_layout(nodes, 1, last.w, last.h)} :
            \A p \in Parents : \A c \in ChildrenOf(p) :
                /\ nodes[c].computed_x = nodes[p].computed_x + rel[c].computed_x
                /\ nodes[c].computed_y = nodes[p].computed_y + rel[c].computed_y

(* C28 witness: a rendered chain of three nodes, all inside the terminal,  *)
(* whose grandchild is offset from the child and the child from the root.  *)
C28_Witness ==
    /\ Rendered /\ ~out.raised /\ \A n \in NodeIds : InsideTerminal(n)
    /\ \E g \in Depth2Nodes :
           /\ nodes[g].computed_x > nodes[ParentOf(g)].computed_x
           /\ nodes[ParentOf(g)].computed_x > nodes[1].computed_x
           /\ nodes[g].computed_y > nodes[ParentOf(g)].computed_y
           /\ nodes[ParentOf(g)].computed_y > nodes[1].computed_y

(* ------------------ row / column symmetry (C29) ------------------------ *)

(* The transpose of a tree: every node's direction swapped between row and *)
(* column, its width and height swapped, and its geometry transposed.      *)
Transpose(ns) ==
    [n \in 1..Len(ns) |->
        [ns[n] EXCEPT
            !.flex_direction = IF ns[n].flex_direction = ROW THEN COLUMN ELSE ROW,
            !.width = ns[n].height,
            !.height = ns[n].width,
            !.computed_x = ns[n].computed_y,
            !.computed_y = ns[n].computed_x,
            !.computed_width = ns[n].computed_height,
            !.computed_height = ns[n].computed_width]]

(* C29: laying out the transpose of a tree at (h, w) gives the transpose   *)
(* of the geometry that laying out the tree at (w, h) gives: for every     *)
(* node computed_x, computed_y, computed_width, computed_height of the     *)
(* one are computed_y, computed_x, computed_height, computed_width of the  *)
(* other.                                                                  *)
C29_RowColumnSymmetry ==
    last.op = "calculate_layout" =>
        Computed(calculate_layout(Transpose(nodes), 1, last.h, last.w))
            = Computed(Transpose(nodes))

(* C29 witness: a laid-out row of two children on a terminal that is not  *)
(* square, with a fixed size in the tree and a child whose position and    *)
(* size differ between the two axes.                                       *)
C29_Witness ==
    /\ last.op = "calculate_layout" /\ last.w # last.h
    /\ \E p \in Parents : IsRow(p) /\ Len(nodes[p].children) = 2
    /\ \E n \in NodeIds : Truthy(nodes[n].width) \/ Truthy(nodes[n].height)
    /\ \E n \in NodeIds \ {1} :
           /\ nodes[n].computed_width # nodes[n].computed_height
           /\ nodes[n].computed_x # nodes[n].computed_y

(* ------------------ style fields that are not read (C30) --------------- *)

(* Styles that differ in justify_content, align_items, flex_shrink,        *)
(* flex_basis and margin.                                                  *)
IgnoredStyles ==
    { YogaNode,
      [YogaNode EXCEPT !.flex_direction = ROW, !.padding = 0, !.border = FALSE,
                       !.flex_grow = 1, !.justify_content = "center",
                       !.margin = 2],
      [YogaNode EXCEPT !.flex_direction = ROW, !.padding = 0, !.border = FALSE,
                       !.flex_grow = 1, !.align_items = "stretch",
                       !.flex_shrink = 0],
      [YogaNode EXCEPT !.content = Text, !.flex_grow = 1,
                       !.justify_content = "space-between",
                       !.flex_basis = Some(5), !.margin = -1],
      [YogaNode EXCEPT !.content = Text, !.flex_grow = 1,
                       !.align_items = "flex-end", !.flex_shrink = 2] }

InitIgnored ==
    /\ nodes \in {<<s>> : s \in IgnoredStyles}
    /\ out = NoOutput
    /\ writes = <<>>
    /\ last = NoCall
    /\ run = Idle

AddChildIgnored ==
    \E parent \in 1..Len(nodes), style \in IgnoredStyles : add_child(parent, style)

NextIgnored == AddChildIgnored \/ CalculateLayout \/ Render

SpecIgnored == InitIgnored /\ [][NextIgnored]_vars

(* The tree with the five fields of every node at their defaults. *)
Defaulted(ns) ==
    [n \in 1..Len(ns) |->
        [ns[n] EXCEPT !.justify_content = YogaNode.justify_content,
                      !.align_items = YogaNode.align_items,
                      !.flex_shrink = YogaNode.flex_shrink,
                      !.flex_basis = YogaNode.flex_basis,
                      !.margin = YogaNode.margin]]

(* C30: justify_content, align_items, flex_shrink, flex_basis and margin   *)
(* have no influence on layout or painting: a tree gets the computed       *)
(* geometry and the rendered output of the tree that has these fields at   *)
(* their defaults on every node, hence two trees that differ in these      *)
(* fields only get the same.                                               *)
C30_IgnoredFields ==
    /\ last.op = "calculate_layout" =>
           Computed(nodes)
               = Computed(calculate_layout(Defaulted(nodes), 1, last.w, last.h))
    /\ last.op = "render" =>
           \E st \in {render(Defaulted(nodes), last.w, last.h)} :
               /\ Computed(nodes) = Computed(st.nodes)
               /\ writes = st.log
               /\ out = [raised |-> st.raised,
                         text |-> IF st.raised THEN <<>> ELSE join(st.grid, 1)]

(* C30 witness: a rendered tree that drew something and whose nodes have   *)
(* a margin, a flex_basis, a flex_shrink, a justify_content and an         *)
(* align_items other than the defaults.                                    *)
C30_Witness ==
    /\ Rendered /\ writes # <<>> /\ Len(nodes) = 3
    /\ \E n \in NodeIds : nodes[n].margin # YogaNode.margin
    /\ \E n \in NodeIds : nodes[n].flex_basis # YogaNode.flex_basis
    /\ \E n \in NodeIds : nodes[n].flex_shrink # YogaNode.flex_shrink
    /\ \E n \in NodeIds : nodes[n].justify_content # YogaNode.justify_content
    /\ \E n \in NodeIds : nodes[n].align_items # YogaNode.align_items

=============================================================================
